---- MODULE Spec2Model ----
(***************************************************************************)
(* A model of dbkp's core:                                                 *)
(*   - PostgreSqlConnection::new / backup / restore / restore_with_options *)
(*     (core/src/databases/postgres/connection.rs): the tunnel a           *)
(*     Connection owns, the subprocess commands, the buffered relay        *)
(*     between a byte source and a byte sink through the child's pipes,    *)
(*     and the effect of the commands on the target database;              *)
(*   - StorageProvider::list_with_options / cleanup / delete               *)
(*     (core/src/storage/provider.rs): listing, ordering by the timestamp  *)
(*     embedded in the file name, and retention.                           *)
(* The two halves share no state; each has its own specification           *)
(* (SpecConn, SpecStorage) that leaves the other half's variables alone.   *)
(***************************************************************************)
EXTENDS Integers, Sequences, FiniteSets, TLC

VARIABLES
    (* ---- PostgreSqlConnection: the object and its tunnel ---- *)
    conn,       \* the PostgreSqlConnection the caller holds, if any
    tunnels,    \* for every local port a tunnel may listen on: its listener and its task
    (* ---- PostgreSqlConnection: one backup or restore call ---- *)
    entry,      \* the trait method the caller invoked: "none", "backup", "restore", "restore_with_options"
    options,    \* RestoreOptions seen by restore_with_options
    pc,         \* position inside the method body
    input,      \* all bytes the source will yield (child stdout in backup, reader in restore)
    consumed,   \* how many bytes of input have been read so far
    buffer,     \* the fixed transfer buffer, let mut buffer = [0u8; 16384]
    n,          \* the n of the last Ok(n) read
    output,     \* bytes written to the destination (writer in backup, child stdin in restore)
    stdin,      \* restore: the child's stdin handle, "none" | "open" | "closed"
    child,      \* the spawned pg_dump / psql replay child, "none" | "running" | "exited"
    events,     \* every external operation the call has performed, with its outcome
    commands,   \* the arguments and environment of every command the call has built
    db,         \* the target database
    result,     \* "pending" | "ok" | "err"
    detail,     \* what the returned error reports
    (* ---- the spawned child and its pipes ---- *)
    prog,       \* what the child does besides its main stream
    owed,       \* bytes the child has still to write to prog.stream before it goes on
    outPipe,    \* bytes in the child's stdout pipe that the call has not read
    errPipe,    \* bytes in the child's stderr pipe that the call has not read
    orphans,    \* children of earlier calls of this process that are still running
    (* ---- StorageProvider ---- *)
    storage,    \* the objects held by the backend operator
    call,       \* the last StorageProvider call: its arguments and what the backend showed it
    ret         \* what that call returned

callVars    == <<entry, options, pc, input, consumed, buffer, n, output, stdin,
                 child, events, commands, db, result, detail, prog, owed, outPipe,
                 errPipe>>
connVars    == <<conn, tunnels, entry, options, pc, input, consumed, buffer, n,
                 output, stdin, child, events, commands, db, result, detail, prog,
                 owed, outPipe, errPipe, orphans>>
storageVars == <<storage, call, ret>>
vars        == <<conn, tunnels, entry, options, pc, input, consumed, buffer, n,
                 output, stdin, child, events, commands, db, result, detail, prog,
                 owed, outPipe, errPipe, orphans, storage, call, ret>>

(***************************************************************************)
(* Bounds of the model.                                                    *)
(***************************************************************************)
\* Length of the transfer buffer in the model; it stands for the 16384 bytes of
\* connection.rs:164 and connection.rs:339 (every read yields 1..BufLen bytes).
BufLen == 2
\* Longest source stream, in bytes.
MaxInput == 4
\* Capacity of an operating-system pipe in the model, in bytes (at least one
\* buffer, as 65536 is to 16384).
PipeCap == 2
\* Most children left running by calls that have returned.
MaxOrphans == 1

\* The byte values a source may hold (the buffer starts as zeros).
Bytes == 1..MaxInput

Min(a, b) == IF a < b THEN a ELSE b

None == [some |-> FALSE]
Some(v) == [some |-> TRUE, v |-> v]
UnwrapOr(opt, default) == IF opt.some THEN opt.v ELSE default

(***************************************************************************)
(* PostgreSqlConnection::new and the tunnel                                *)
(***************************************************************************)
\* The DatabaseConfig values a caller passes to new: a server reached
\* directly, and one reached through an SSH tunnel.
Direct ==
    [host |-> "db.internal", port |-> 5432, database |-> "app", username |-> "dbkp",
     password |-> None, ssh_tunnel |-> None]
Tunnelled ==
    [host |-> "db.internal", port |-> 5432, database |-> "app", username |-> "dbkp",
     password |-> Some("secret"),
     ssh_tunnel |-> Some([host |-> "bastion", username |-> "ops"])]
DatabaseConfigs == {Direct, Tunnelled}

NoConnection == [state |-> "none"]

\* The local ports the operating system may give a tunnel's listener.
LocalPorts == {49152}

\* A local port nothing has listened on yet.
PortUnused == [opened |-> FALSE, listening |-> FALSE, forwarding |-> FALSE]

\* SshTunnel::new(ssh_config, SshRemoteConfig { host, port }): a listener bound
\* to a free local port and a task forwarding what it accepts to the remote
\* end; the value returned knows its local_port.
SshTunnelNew(local_port, ssh_config, remote) ==
    [local_port |-> local_port, ssh |-> ssh_config, remote |-> remote]
PortOpened == [opened |-> TRUE, listening |-> TRUE, forwarding |-> TRUE]

\* Dropping an SshTunnel: the listener is closed and the forwarding task ends.
SshTunnelDrop(t) == [t EXCEPT !.listening = FALSE, !.forwarding = FALSE]

\* if let Some(ssh_tunnel) = &ssh_tunnel { config.host = "localhost".into();
\*                                         config.port = ssh_tunnel.local_port; }
EffectiveConfigKeepPort(config, ssh_tunnel) ==
    IF ssh_tunnel.some THEN [config EXCEPT !.host = "localhost"] ELSE config
EffectiveConfig(config, ssh_tunnel) ==
    IF ssh_tunnel.some
    THEN [config EXCEPT !.host = "localhost", !.port = ssh_tunnel.v.local_port]
    ELSE config

\* The tunnels after the value holding _ssh_tunnel (the Connection, or the
\* local of new when it returns early) went out of scope: an Option<SshTunnel>
\* field is dropped with its owner.
DropOwnerLeak(ssh_tunnel, ts) == ts
DropOwner(ssh_tunnel, ts) ==
    IF ssh_tunnel.some
    THEN [ts EXCEPT ![ssh_tunnel.v.local_port] = SshTunnelDrop(@)]
    ELSE ts

(***************************************************************************)
(* PostgreSqlConnection::backup / restore / restore_with_options           *)
(***************************************************************************)
DbOrig == [exists |-> TRUE, content |-> "orig", replayed |-> 0]

Event(kind, outcome) == [kind |-> kind, outcome |-> outcome]

\* An operation failed: it returned Err, or the command exited non-zero.
Failed(e) == e.outcome \in {"err", "nonzero"}

LookupPcs == {"lookup_dump", "lookup_terminate", "lookup_drop", "lookup_create",
              "lookup_replay"}
AdminPcs  == {"terminate", "drop", "create"}
SpawnPcs  == {"dump", "replay"}

\* The command built after a successful get_base_command / get_command.
CommandOf(p) ==
    CASE p = "lookup_dump"      -> "dump"
      [] p = "lookup_terminate" -> "terminate"
      [] p = "lookup_drop"      -> "drop"
      [] p = "lookup_create"    -> "create"
      [] p = "lookup_replay"    -> "replay"

\* What that command is given: the utility, -h, -p, -U, -d, the database its
\* SQL or its -d names, and PGPASSWORD. The administrative commands connect
\* to the database "postgres" and name self.config.database in their SQL.
CommandArgs(p, config) ==
    [bin        |-> IF p = "lookup_dump" THEN "pg_dump" ELSE "psql",
     h          |-> config.host,
     p          |-> config.port,
     U          |-> config.username,
     d          |-> IF p \in {"lookup_dump", "lookup_replay"} THEN config.database
                                                              ELSE "postgres",
     database   |-> config.database,
     PGPASSWORD |-> config.password]

\* restore(): the options it passes on.
RestoreDefaultOptionsNoDrop == [drop_database_first |-> FALSE]
RestoreDefaultOptions == [drop_database_first |-> TRUE]

\* status.success(): the exit status check after cmd.output() and child.wait().
StatusSuccessUnchecked(outcome) == TRUE
StatusSuccess(outcome) == outcome = "ok"

\* Where restore_with_options goes after an administrative command succeeded.
AfterAdminSkipDrop(p, opts) ==
    CASE p = "terminate" -> "lookup_replay"
      [] p = "drop"      -> "lookup_create"
      [] p = "create"    -> "lookup_replay"
AfterAdmin(p, opts) ==
    CASE p = "terminate" -> IF opts.drop_database_first THEN "lookup_drop"
                                                        ELSE "lookup_replay"
      [] p = "drop"      -> "lookup_create"
      [] p = "create"    -> "lookup_replay"

\* What a successful administrative command does to the target database.
AdminEffect(p, d) ==
    CASE p = "terminate" -> d
      [] p = "drop"      -> [exists |-> FALSE, content |-> "none", replayed |-> 0]
      [] p = "create"    -> [exists |-> TRUE, content |-> "empty", replayed |-> 0]

\* Where the loop's Ok(0) => break leads: backup goes on to child.wait(),
\* restore_with_options to drop(stdin).
AfterEofNoClose(e) == "wait"
AfterEof(e) == IF e = "backup" THEN "wait" ELSE "close"

\* &buffer[..n], the slice handed to write_all.
WriteSliceWholeBuffer(buf, k) == buf
WriteSlice(buf, k) == SubSeq(buf, 1, k)

\* read(&mut buffer) returning Ok(k): the first k bytes of the buffer are
\* overwritten, the rest keep what an earlier read left there.
FillBuffer(buf, src, from, k) ==
    [i \in 1..BufLen |-> IF i <= k THEN src[from + i] ELSE buf[i]]

\* What the child does besides its main stream. pg_dump writes `diag` bytes of
\* messages to stderr at some points of its run; psql writes `echo` bytes (a
\* command tag, a notice, an error message) to `stream` for every byte of
\* input it has executed.
NoProgram == [kind |-> "none", stream |-> "stderr", diag |-> 0, echo |-> 0]
DumpPrograms ==
    {[kind |-> "dump", stream |-> "stderr", diag |-> d, echo |-> 0] :
        d \in {0, PipeCap, PipeCap + 1}}
ReplayPrograms ==
    {[kind |-> "replay", stream |-> "stdout", diag |-> 0, echo |-> 0],
     [kind |-> "replay", stream |-> "stdout", diag |-> 0, echo |-> 1],
     [kind |-> "replay", stream |-> "stderr", diag |-> 0, echo |-> PipeCap + 1]}
Programs(p) == IF p = "dump" THEN DumpPrograms ELSE ReplayPrograms

\* Bytes sitting in the pipe of the given stream of the child.
PipeLevel(stream) == IF stream = "stdout" THEN outPipe ELSE errPipe

\* Bytes written to the child's stdin that psql has not read yet.
StdinLevel == Len(output) - db.replayed

\* child.wait_with_output() reads the child's stdout and stderr to their end
\* while it waits; nothing else in restore_with_options reads them, and backup
\* reads stderr only after wait() has returned.
Draining == entry \in {"restore", "restore_with_options"} /\ pc = "wait"

\* The error the call returns: the step that failed and how.
NoDetail == [step |-> "none"]
Detail(kind, outcome) == [step |-> kind, outcome |-> outcome]

\* An Err return (or `?`) anywhere in the method body. The locals go out of
\* scope: a ChildStdin still held is dropped, which closes the child's stdin;
\* the Child handle is dropped too, which does not kill the child.
AbortWith(kind, outcome, d) ==
    /\ events' = Append(events, Event(kind, outcome))
    /\ result' = "err"
    /\ detail' = d
    /\ stdin' = IF stdin = "open" THEN "closed" ELSE stdin
    /\ pc' = "done"
Abort(kind, outcome) == AbortWith(kind, outcome, Detail(kind, outcome))

\* The sources of the model: every length up to MaxInput, each byte carrying
\* its position, so that a byte relayed out of place, twice or not at all
\* changes the destination.
Inputs ==
    {src \in UNION {[1..len -> Bytes] : len \in 0..MaxInput} :
        \A i \in DOMAIN src : src[i] = i}

InitConn ==
    /\ conn = NoConnection
    /\ tunnels = [p \in LocalPorts |-> PortUnused]
    /\ entry = "none"
    /\ options = [drop_database_first |-> FALSE]
    /\ pc = "idle"
    /\ input = <<>>
    /\ consumed = 0
    /\ buffer = [i \in 1..BufLen |-> 0]
    /\ n = 0
    /\ output = <<>>
    /\ stdin = "none"
    /\ child = "none"
    /\ events = <<>>
    /\ commands = <<>>
    /\ db = DbOrig
    /\ result = "pending"
    /\ detail = NoDetail
    /\ prog = NoProgram
    /\ owed = 0
    /\ outPipe = 0
    /\ errPipe = 0
    /\ orphans = 0

\* PostgreSqlConnection::new(config): opens the tunnel when one is configured,
\* rewrites host and port, then connects the pool. When the pool cannot be
\* connected new returns the error and the tunnel it opened goes out of scope.
\* (A failing SshTunnel::new returns before anything exists.)
New ==
    /\ conn.state = "none"
    /\ pc = "idle"
    /\ \E given \in DatabaseConfigs, poolConnects \in BOOLEAN,
          local_port \in {p \in LocalPorts : ~tunnels[p].listening} :
        LET ssh_tunnel == IF given.ssh_tunnel.some
                          THEN Some(SshTunnelNew(local_port, given.ssh_tunnel.v,
                                                 [host |-> given.host, port |-> given.port]))
                          ELSE None
            opened     == IF given.ssh_tunnel.some
                          THEN [tunnels EXCEPT ![local_port] = PortOpened]
                          ELSE tunnels
        IN  IF poolConnects
            THEN /\ conn' = [state |-> "ready", given |-> given,
                             config |-> EffectiveConfig(given, ssh_tunnel),
                             ssh_tunnel |-> ssh_tunnel]
                 /\ tunnels' = opened
            ELSE /\ conn' = NoConnection
                 /\ tunnels' = DropOwner(ssh_tunnel, opened)
    /\ UNCHANGED <<callVars, orphans>>
    /\ UNCHANGED storageVars

\* The caller lets go of the Connection between two calls: its fields are
\* dropped, _ssh_tunnel among them.
Discard ==
    /\ conn.state = "ready"
    /\ pc = "idle"
    /\ tunnels' = DropOwner(conn.ssh_tunnel, tunnels)
    /\ conn' = NoConnection
    /\ UNCHANGED <<callVars, orphans>>
    /\ UNCHANGED storageVars

\* A new call starts against a database in its pre-call state, with a freshly
\* zeroed buffer.
BeginCall(e, opts, firstPc, src) ==
    /\ entry' = e
    /\ options' = opts
    /\ pc' = firstPc
    /\ input' = src
    /\ consumed' = 0
    /\ buffer' = [i \in 1..BufLen |-> 0]
    /\ n' = 0
    /\ output' = <<>>
    /\ stdin' = "none"
    /\ child' = "none"
    /\ events' = <<>>
    /\ commands' = <<>>
    /\ db' = DbOrig
    /\ result' = "pending"
    /\ detail' = NoDetail
    /\ prog' = NoProgram
    /\ owed' = 0
    /\ outPipe' = 0
    /\ errPipe' = 0

\* backup(writer)
Backup ==
    /\ pc = "idle"
    /\ conn.state = "ready"
    /\ \E src \in Inputs :
        BeginCall("backup", [drop_database_first |-> FALSE], "lookup_dump", src)
    /\ UNCHANGED <<conn, tunnels, orphans>>
    /\ UNCHANGED storageVars

\* restore(reader) calls restore_with_options(reader, RestoreOptions { .. }).
Restore ==
    /\ pc = "idle"
    /\ conn.state = "ready"
    /\ \E src \in Inputs :
        BeginCall("restore", RestoreDefaultOptions, "lookup_terminate", src)
    /\ UNCHANGED <<conn, tunnels, orphans>>
    /\ UNCHANGED storageVars

\* restore_with_options(reader, options), called directly.
RestoreWithOptions ==
    /\ pc = "idle"
    /\ conn.state = "ready"
    /\ \E src \in Inputs, d \in BOOLEAN :
        BeginCall("restore_with_options", [drop_database_first |-> d],
                  "lookup_terminate", src)
    /\ UNCHANGED <<conn, tunnels, orphans>>
    /\ UNCHANGED storageVars

\* get_base_command / get_command: the server version is looked up and the
\* utility resolved; either can fail. Then the arguments are added.
GetBaseCommand ==
    /\ pc \in LookupPcs
    /\ \E outcome \in {"ok", "err"} :
        IF outcome = "ok"
        THEN /\ events' = Append(events, Event(pc, "ok"))
             /\ commands' = Append(commands, CommandArgs(pc, conn.config))
             /\ pc' = CommandOf(pc)
             /\ UNCHANGED <<result, detail, stdin>>
        ELSE /\ Abort(pc, "err")
             /\ UNCHANGED commands
    /\ UNCHANGED <<conn, tunnels, orphans>>
    /\ UNCHANGED <<entry, options, input, consumed, buffer, n, output, child, db,
                   prog, owed, outPipe, errPipe>>
    /\ UNCHANGED storageVars

\* cmd.output().await: the command runs to completion; "err" is a failure to
\* execute it at all, "nonzero" a non-zero exit status.
RunAdmin ==
    /\ pc \in AdminPcs
    /\ \E outcome \in {"ok", "nonzero", "err"} :
        IF outcome # "err" /\ StatusSuccess(outcome)
        THEN /\ events' = Append(events, Event(pc, outcome))
             /\ db' = IF outcome = "ok" THEN AdminEffect(pc, db) ELSE db
             /\ pc' = AfterAdmin(pc, options)
             /\ UNCHANGED <<result, detail, stdin>>
        ELSE /\ Abort(pc, outcome)
             /\ UNCHANGED db
    /\ UNCHANGED <<conn, tunnels, orphans>>
    /\ UNCHANGED <<entry, options, input, consumed, buffer, n, output, child,
                   commands, prog, owed, outPipe, errPipe>>
    /\ UNCHANGED storageVars

\* cmd.stdin/stdout/stderr(Stdio::piped()).spawn(): the child starts running
\* its program, with empty pipes.
Spawn ==
    /\ pc \in SpawnPcs
    /\ \/ \E program \in Programs(pc) :
            /\ events' = Append(events, Event(pc, "ok"))
            /\ child' = "running"
            /\ stdin' = IF pc = "replay" THEN "open" ELSE stdin
            /\ prog' = program
            /\ owed' = program.diag
            /\ pc' = "read"
            /\ UNCHANGED <<result, detail>>
       \/ /\ Abort(pc, "err")
          /\ UNCHANGED <<child, prog, owed>>
    /\ UNCHANGED <<conn, tunnels, orphans>>
    /\ UNCHANGED <<entry, options, input, consumed, buffer, n, output, commands, db,
                   outPipe, errPipe>>
    /\ UNCHANGED storageVars

\* stdout.read(&mut buffer).await in backup, reader.read(&mut buffer) in restore:
\* Ok(0) at end of stream, Ok(k) with 1 <= k <= buffer length, or Err. In backup
\* the stream is the child's stdout pipe: the read waits while the pipe is
\* empty and the child has not closed it, and it yields bytes that are in the
\* pipe.
Read ==
    /\ pc = "read"
    /\ \/ /\ IF entry = "backup" THEN outPipe = 0 /\ child = "exited"
                                 ELSE consumed = Len(input)
          /\ events' = Append(events, Event("read", "eof"))
          /\ pc' = AfterEof(entry)
          /\ UNCHANGED <<buffer, n, consumed, result, detail, stdin, outPipe>>
       \/ \E k \in 1..Min(BufLen, IF entry = "backup" THEN outPipe
                                                      ELSE Len(input) - consumed) :
            /\ buffer' = FillBuffer(buffer, input, consumed, k)
            /\ n' = k
            /\ consumed' = consumed + k
            /\ outPipe' = IF entry = "backup" THEN outPipe - k ELSE outPipe
            /\ events' = Append(events, Event("read", "ok"))
            /\ pc' = "write"
            /\ UNCHANGED <<result, detail, stdin>>
       \/ /\ Abort("read", "err")
          /\ UNCHANGED <<buffer, n, consumed, outPipe>>
    /\ UNCHANGED <<conn, tunnels, orphans>>
    /\ UNCHANGED <<entry, options, input, output, child, commands, db, prog, owed,
                   errPipe>>
    /\ UNCHANGED storageVars

\* writer.write_all(&buffer[..n]) in backup, stdin.write_all(&buffer[..n]).await
\* in restore. In restore the destination is the child's stdin pipe: write_all
\* returns Ok once the pipe has taken the whole slice, which needs a child that
\* reads. A failing write_all may have written a proper prefix of the slice.
Write ==
    /\ pc = "write"
    /\ \/ /\ entry # "backup" => (child = "running" /\ StdinLevel + n <= PipeCap)
          /\ output' = output \o WriteSlice(buffer, n)
          /\ events' = Append(events, Event("write", "ok"))
          /\ pc' = "read"
          /\ UNCHANGED <<result, detail, stdin>>
       \/ \E k \in 0..(n - 1) :
            /\ entry # "backup" => StdinLevel + k <= PipeCap
            /\ output' = output \o SubSeq(WriteSlice(buffer, n), 1, k)
            /\ Abort("write", "err")
    /\ UNCHANGED <<conn, tunnels, orphans>>
    /\ UNCHANGED <<entry, options, input, consumed, buffer, n, child, commands, db,
                   prog, owed, outPipe, errPipe>>
    /\ UNCHANGED storageVars

\* drop(stdin)
CloseStdin ==
    /\ pc = "close"
    /\ stdin' = "closed"
    /\ events' = Append(events, Event("close", "ok"))
    /\ pc' = "wait"
    /\ UNCHANGED <<conn, tunnels, orphans>>
    /\ UNCHANGED <<entry, options, input, consumed, buffer, n, output, child,
                   commands, db, result, detail, prog, owed, outPipe, errPipe>>
    /\ UNCHANGED storageVars

\* child.wait().await in backup, child.wait_with_output().await in restore:
\* returns the exit status once the child has exited, or Err.
Wait ==
    /\ pc = "wait"
    /\ \E outcome \in {"ok", "nonzero", "err"} :
        /\ outcome # "err" => child = "exited"
        /\ IF outcome # "err" /\ StatusSuccess(outcome)
           THEN /\ events' = Append(events, Event("wait", outcome))
                /\ result' = "ok"
                /\ pc' = "done"
                /\ UNCHANGED <<detail, stdin>>
           ELSE IF outcome = "nonzero" /\ entry = "backup"
           THEN /\ events' = Append(events, Event("wait", "nonzero"))
                /\ pc' = "stderr"
                /\ UNCHANGED <<result, detail, stdin>>
           ELSE Abort("wait", outcome)
    /\ UNCHANGED <<conn, tunnels, orphans>>
    /\ UNCHANGED <<entry, options, input, consumed, buffer, n, output, child,
                   commands, db, prog, owed, outPipe, errPipe>>
    /\ UNCHANGED storageVars

\* backup, after a non-zero exit: stderr.read_to_string(&mut error_message),
\* which reads what the exited child left in the pipe, then
\* Err("pg_dump failed: {error_message}"); a failing read (an I/O error, or
\* bytes that are not UTF-8) returns that error instead.
ReadStderr ==
    /\ pc = "stderr"
    /\ \/ /\ AbortWith("stderr", "ok",
                       [step |-> "wait", outcome |-> "nonzero", stderr |-> errPipe])
          /\ errPipe' = 0
       \/ /\ Abort("stderr", "err")
          /\ UNCHANGED errPipe
    /\ UNCHANGED <<conn, tunnels, orphans>>
    /\ UNCHANGED <<entry, options, input, consumed, buffer, n, output, child,
                   commands, db, prog, owed, outPipe>>
    /\ UNCHANGED storageVars

\* The pg_dump child writes the next byte of the dump to its stdout pipe,
\* when the pipe has room and the call still holds the other end.
ChildWriteStdout ==
    /\ entry = "backup"
    /\ child = "running"
    /\ pc # "done"
    /\ consumed + outPipe < Len(input)
    /\ outPipe < PipeCap
    /\ outPipe' = outPipe + 1
    /\ UNCHANGED <<conn, tunnels, orphans>>
    /\ UNCHANGED <<entry, options, pc, input, consumed, buffer, n, output, stdin,
                   child, events, commands, db, result, detail, prog, owed, errPipe>>
    /\ UNCHANGED storageVars

\* The child writes a byte it owes to prog.stream: into the pipe when the pipe
\* has room, or straight to wait_with_output once that is reading.
ChildWriteDiag ==
    /\ child = "running"
    /\ pc # "done"
    /\ owed > 0
    /\ Draining \/ PipeLevel(prog.stream) < PipeCap
    /\ owed' = owed - 1
    /\ outPipe' = IF ~Draining /\ prog.stream = "stdout" THEN outPipe + 1 ELSE outPipe
    /\ errPipe' = IF ~Draining /\ prog.stream = "stderr" THEN errPipe + 1 ELSE errPipe
    /\ UNCHANGED <<conn, tunnels, orphans>>
    /\ UNCHANGED <<entry, options, pc, input, consumed, buffer, n, output, stdin,
                   child, events, commands, db, result, detail, prog>>
    /\ UNCHANGED storageVars

\* The psql replay child reads the next byte of its stdin and executes it, once
\* it has written what it owed; it then owes the output of that byte. It keeps
\* reading what is in the pipe after the call has returned early, with nobody
\* left to take its output.
ChildApply ==
    /\ entry \in {"restore", "restore_with_options"}
    /\ child = "running"
    /\ db.exists
    /\ db.replayed < Len(output)
    /\ owed = 0 \/ pc = "done"
    /\ db' = [db EXCEPT !.replayed = @ + 1]
    /\ owed' = IF pc = "done" THEN 0 ELSE prog.echo
    /\ UNCHANGED <<conn, tunnels, orphans>>
    /\ UNCHANGED <<entry, options, pc, input, consumed, buffer, n, output, stdin,
                   child, events, commands, result, detail, prog, outPipe, errPipe>>
    /\ UNCHANGED storageVars

\* The child exits. pg_dump has then written all of its output (input is what
\* it writes in its life); psql exits at end of input, or earlier on its own;
\* a child whose pipes the call no longer holds gets an error on its next
\* write or end of input on its next read. A child waiting for room in a pipe
\* does not exit.
ChildExit ==
    /\ child = "running"
    /\ \/ pc = "done"
       \/ /\ entry = "backup"
          /\ consumed + outPipe = Len(input)
          /\ owed = 0
       \/ /\ entry # "backup"
          /\ owed = 0
    /\ child' = "exited"
    /\ UNCHANGED <<conn, tunnels, orphans>>
    /\ UNCHANGED <<entry, options, pc, input, consumed, buffer, n, output, stdin,
                   events, commands, db, result, detail, prog, owed, outPipe, errPipe>>
    /\ UNCHANGED storageVars

\* The call has returned and the caller starts nothing else yet: the
\* Connection is idle, and the next call will start from a clean slate. A
\* child that is still running when the call returns keeps running: the Child
\* handle is dropped without kill_on_drop and nothing kills it.
StillRunning == IF child = "running" THEN 1 ELSE 0
Return ==
    /\ pc = "done"
    /\ orphans + StillRunning <= MaxOrphans
    /\ orphans' = orphans + StillRunning
    /\ entry' = "none"
    /\ options' = [drop_database_first |-> FALSE]
    /\ pc' = "idle"
    /\ input' = <<>>
    /\ consumed' = 0
    /\ buffer' = [i \in 1..BufLen |-> 0]
    /\ n' = 0
    /\ output' = <<>>
    /\ stdin' = "none"
    /\ child' = "none"
    /\ events' = <<>>
    /\ commands' = <<>>
    /\ db' = DbOrig
    /\ result' = "pending"
    /\ detail' = NoDetail
    /\ prog' = NoProgram
    /\ owed' = 0
    /\ outPipe' = 0
    /\ errPipe' = 0
    /\ UNCHANGED <<conn, tunnels>>
    /\ UNCHANGED storageVars

\* A child left running by an earlier call exits.
OrphanExit ==
    /\ orphans > 0
    /\ orphans' = orphans - 1
    /\ UNCHANGED <<conn, tunnels, callVars>>
    /\ UNCHANGED storageVars

NextConn ==
    \/ New
    \/ Discard
    \/ Backup
    \/ Restore
    \/ RestoreWithOptions
    \/ GetBaseCommand
    \/ RunAdmin
    \/ Spawn
    \/ Read
    \/ Write
    \/ CloseStdin
    \/ Wait
    \/ ReadStderr
    \/ ChildWriteStdout
    \/ ChildWriteDiag
    \/ ChildApply
    \/ ChildExit
    \/ Return
    \/ OrphanExit

(***************************************************************************)
(* Claims about PostgreSqlConnection, checked under SpecConn.              *)
(***************************************************************************)
RestoreEntries == {"restore", "restore_with_options"}

IsPrefix(a, b) == Len(a) <= Len(b) /\ a = SubSeq(b, 1, Len(a))

\* The read loop ended on Ok(0).
LoopCompleted == \E i \in 1..Len(events) : events[i] = Event("read", "eof")

NoTransferFailure ==
    \A i \in 1..Len(events) :
        events[i].kind \in {"read", "write"} => ~Failed(events[i])

\* The commands the call has started, in order (a command that could not be
\* executed at all was never started).
IsStarted(e) == e.kind \in {"terminate", "drop", "create", "replay", "dump"}
                /\ e.outcome # "err"
Started == SelectSeq(events, IsStarted)
StartedKinds == [i \in 1..Len(Started) |-> Started[i].kind]

ExpectedCommands(dropFirst) ==
    IF dropFirst THEN <<"terminate", "drop", "create", "replay">>
                 ELSE <<"terminate", "replay">>

\* Index of the first failed operation of the call, 0 when none failed.
FirstFailure ==
    IF \E i \in 1..Len(events) : Failed(events[i])
    THEN CHOOSE i \in 1..Len(events) :
            Failed(events[i]) /\ \A j \in 1..(i - 1) : ~Failed(events[j])
    ELSE 0

\* C1: with no read or write failing, the bytes written to the destination are
\* at every moment exactly the source bytes read and handed on so far, in order,
\* and once the source reached end-of-stream they are the whole source, also for
\* sources longer than the buffer and for every split into reads.
C1_RelayExact ==
    /\ NoTransferFailure =>
          output = SubSeq(input, 1, IF pc = "write" THEN consumed - n ELSE consumed)
    /\ LoopCompleted => output = input

C1_Witness ==
    /\ entry = "backup"
    /\ LoopCompleted
    /\ Len(input) > BufLen
    /\ output = input

\* C2: restore_with_options starts its commands in the order terminate,
\* [drop, create,] replay (drop and create iff drop_database_first), each only
\* after the previous one exited with status zero; a successful call has
\* started exactly that sequence.
C2_CommandOrder ==
    entry \in RestoreEntries =>
        /\ IsPrefix(StartedKinds, ExpectedCommands(options.drop_database_first))
        /\ \A i \in 1..(Len(Started) - 1) : Started[i].outcome = "ok"
        /\ result = "ok" =>
              StartedKinds = ExpectedCommands(options.drop_database_first)

C2_Witness ==
    /\ entry = "restore_with_options"
    /\ options.drop_database_first
    /\ result = "ok"
    /\ StartedKinds = <<"terminate", "drop", "create", "replay">>

\* C3: once a step of backup or restore has failed, the call performs no later
\* version lookup, command, read, write or close (only backup's read of stderr
\* after a non-zero exit), and it returns an error.
C3_AbortOnFailure ==
    \A i \in 1..Len(events) :
        Failed(events[i]) =>
            /\ \A j \in (i + 1)..Len(events) :
                  events[j].kind = "stderr" /\ events[i] = Event("wait", "nonzero")
            /\ pc \in {"done", "stderr"}
            /\ pc = "done" => result = "err"

C3_Witness ==
    /\ entry = "backup"
    /\ pc = "done"
    /\ result = "err"
    /\ Len(events) > 0
    /\ events[Len(events)] = Event("write", "err")
    /\ consumed < Len(input)

\* C4 as claimed: whenever restore_with_options returns an error, the target
\* database is in the state it had before the call.
C4_NoPartialState ==
    (entry \in RestoreEntries /\ pc = "done" /\ result = "err") => db = DbOrig

\* The failing steps before which nothing has touched the target database.
EarlySteps(opts) ==
    {"lookup_terminate", "terminate", "lookup_drop", "drop"}
        \cup (IF opts.drop_database_first THEN {} ELSE {"lookup_replay", "replay"})

\* C4 as amended: an error return leaves the database in its pre-call state
\* when the failing step is the version lookup, the terminate command or the
\* drop command (or, without drop_database_first, the spawn of the replay);
\* a failure of the create step leaves it dropped, and every later failure
\* after a drop leaves it recreated, empty or partly replayed.
C4_FailureLeavesStepsDone ==
    (entry \in RestoreEntries /\ result = "err") =>
        LET k == events[FirstFailure].kind IN
        /\ k \in EarlySteps(options) => db = DbOrig
        /\ k \in {"lookup_create", "create"} => ~db.exists
        /\ (options.drop_database_first
              /\ k \in {"lookup_replay", "replay", "read", "write", "wait"}) =>
                 (db.exists /\ db.content = "empty")

C4_Witness ==
    /\ entry = "restore"
    /\ pc = "done"
    /\ result = "err"
    /\ events[Len(events)] = Event("drop", "nonzero")
    /\ db = DbOrig

\* C5: restore(source) runs restore_with_options with drop_database_first set:
\* its commands are those of the drop-first sequence, in that order, and a
\* successful restore has dropped and recreated the database before replaying.
C5_RestoreDropsFirst ==
    entry = "restore" =>
        /\ options.drop_database_first
        /\ IsPrefix(StartedKinds, <<"terminate", "drop", "create", "replay">>)
        /\ result = "ok" =>
              /\ StartedKinds = <<"terminate", "drop", "create", "replay">>
              /\ db.content = "empty"

C5_Witness ==
    /\ entry = "restore"
    /\ result = "ok"
    /\ Event("drop", "ok") \in {events[i] : i \in 1..Len(events)}
    /\ Event("create", "ok") \in {events[i] : i \in 1..Len(events)}

\* The events of the call, as a set.
EventSet == {events[i] : i \in 1..Len(events)}

\* C14: a Connection created with a tunnel configuration has effective host
\* "localhost" and effective port the tunnel's local port, one created without
\* keeps the configured host and port; database name, username and password
\* are the configured ones; and every command a call builds is given that
\* host, port, username, database and password.
C14_TunnelRewrite ==
    conn.state = "ready" =>
        LET host == IF conn.given.ssh_tunnel.some THEN "localhost" ELSE conn.given.host
            port == IF conn.given.ssh_tunnel.some
                    THEN conn.ssh_tunnel.v.local_port
                    ELSE conn.given.port
        IN  /\ conn.ssh_tunnel.some = conn.given.ssh_tunnel.some
            /\ conn.ssh_tunnel.some =>
                  /\ conn.ssh_tunnel.v.local_port \in LocalPorts
                  /\ tunnels[conn.ssh_tunnel.v.local_port].listening
            /\ conn.config.host = host
            /\ conn.config.port = port
            /\ conn.config.database = conn.given.database
            /\ conn.config.username = conn.given.username
            /\ conn.config.password = conn.given.password
            /\ \A i \in 1..Len(commands) :
                  /\ commands[i].h = host
                  /\ commands[i].p = port
                  /\ commands[i].U = conn.given.username
                  /\ commands[i].database = conn.given.database
                  /\ commands[i].PGPASSWORD = conn.given.password

C14_Witness ==
    /\ conn.state = "ready"
    /\ conn.given = Tunnelled
    /\ entry = "restore"
    /\ result = "ok"
    /\ Len(commands) = 4
    /\ \A i \in 1..4 : commands[i].h = "localhost" /\ commands[i].p \in LocalPorts
    /\ commands[4].d = "app"

\* The tunnel listening on local port p is the one the Connection owns.
OwnedBy(p) ==
    /\ conn.state = "ready"
    /\ conn.ssh_tunnel.some
    /\ conn.ssh_tunnel.v.local_port = p

BackupChildFailed ==
    /\ entry = "backup"
    /\ pc = "done"
    /\ Event("wait", "nonzero") \in EventSet

\* C16 as claimed: when the child exits non-zero after its stdout reached
\* end-of-stream, backup returns a failure whose detail is the child's full
\* stderr.
C16_StderrIsTheDetail ==
    BackupChildFailed =>
        /\ result = "err"
        /\ detail = [step |-> "wait", outcome |-> "nonzero", stderr |-> prog.diag]

\* C16 as amended: backup returns success only if the child exited with status
\* zero and every read and write succeeded; when the child exits non-zero
\* after end-of-stream, every byte of its stdout is in the sink and backup
\* returns a failure, whose detail is the child's full stderr when reading
\* stderr succeeded and the error of that read when it did not.
C16_BackupResult ==
    entry = "backup" =>
        /\ result = "ok" =>
              /\ events[Len(events)] = Event("wait", "ok")
              /\ \A i \in 1..Len(events) : ~Failed(events[i])
              /\ output = input
        /\ BackupChildFailed =>
              /\ result = "err"
              /\ output = input
              /\ IF events[Len(events)] = Event("stderr", "ok")
                 THEN detail = [step |-> "wait", outcome |-> "nonzero",
                                stderr |-> prog.diag]
                 ELSE detail = Detail("stderr", "err")

C16_Witness ==
    /\ BackupChildFailed
    /\ result = "err"
    /\ Len(input) > BufLen
    /\ output = input
    /\ prog.diag = PipeCap
    /\ detail = [step |-> "wait", outcome |-> "nonzero", stderr |-> PipeCap]

\* C17 as claimed: with calls made one after the other, at most one backup or
\* restore child spawned through the Connection is running at any time.
C17_AtMostOneChild == orphans + StillRunning <= 1

\* drop(stdin) has been executed.
StdinDropped == Event("close", "ok") \in EventSet

\* C18 as claimed: stdin is never closed while source bytes remain unwritten,
\* and the wait for exit never starts while stdin is still open.
C18_ClosedOnlyAfterSource ==
    entry \in RestoreEntries =>
        /\ stdin = "closed" => (consumed = Len(input) /\ output = input)
        /\ pc = "wait" => stdin = "closed"

\* C18 as amended: drop(stdin) is executed at most once, only after the source
\* reached end-of-stream with every byte of it written to stdin, and the wait
\* for exit starts only after it; when a source read or a stdin write fails,
\* the early return closes stdin with the rest of the source unwritten, and
\* the call does not wait.
C18_StdinClosedOnce ==
    entry \in RestoreEntries =>
        /\ Cardinality({i \in 1..Len(events) : events[i].kind = "close"}) <= 1
        /\ StdinDropped => (LoopCompleted /\ consumed = Len(input) /\ output = input)
        /\ pc = "wait" => (StdinDropped /\ stdin = "closed")
        /\ \A i \in 1..Len(events) :
              events[i].kind = "wait" =>
                  \E j \in 1..(i - 1) : events[j] = Event("close", "ok")
        /\ (stdin = "closed" /\ ~StdinDropped) =>
              /\ pc = "done"
              /\ result = "err"
              /\ events[Len(events)].kind \in {"read", "write"}
        /\ stdin = "open" => pc \in {"read", "write", "close"}

C18_Witness ==
    /\ entry = "restore_with_options"
    /\ pc = "wait"
    /\ StdinDropped
    /\ stdin = "closed"
    /\ Len(input) > BufLen
    /\ output = input

\* The child cannot go on: it has to write to a pipe that is full and that the
\* call is not reading, and it has nothing else left to do.
ChildBlocked ==
    /\ child = "running"
    /\ owed > 0
    /\ ~Draining
    /\ PipeLevel(prog.stream) = PipeCap
    /\ entry = "backup" => consumed + outPipe = Len(input)

\* C19 as claimed: no state is reachable in which the dump child is blocked
\* writing stderr while backup is blocked reading stdout.
C19_NoStderrDeadlock ==
    ~(/\ entry = "backup"
      /\ pc = "read"
      /\ outPipe = 0
      /\ ChildBlocked)

\* C20 as claimed: no state is reachable in which the restore child is blocked
\* writing its output while the call is blocked writing its stdin.
C20_NoStdinDeadlock ==
    ~(/\ entry \in RestoreEntries
      /\ pc = "write"
      /\ StdinLevel + n > PipeCap
      /\ ChildBlocked)

(***************************************************************************)
(* 64-bit unsigned arithmetic, as little-endian sequences of eight bytes   *)
(* (retention_days: u64 and Duration::from_secs(retention_days * 86400)).  *)
(***************************************************************************)
U64Bytes == 8
ByteBase == 256
SecondsPerDay == 86400

\* A u64 from three chunks: hi * 2^48 + mid * 2^24 + lo.
U64(hi, mid, lo) ==
    <<lo % ByteBase, (lo \div ByteBase) % ByteBase, (lo \div (ByteBase * ByteBase)) % ByteBase,
      mid % ByteBase, (mid \div ByteBase) % ByteBase, (mid \div (ByteBase * ByteBase)) % ByteBase,
      hi % ByteBase, (hi \div ByteBase) % ByteBase>>

\* a * k on u64 operands: the low 64 bits and what was carried out of them.
RECURSIVE MulFrom(_, _, _, _)
MulFrom(a, k, i, carry) ==
    IF i > U64Bytes
    THEN [bytes |-> <<>>, carry |-> carry]
    ELSE LET p    == a[i] * k + carry
             rest == MulFrom(a, k, i + 1, p \div ByteBase)
         IN  [bytes |-> <<p % ByteBase>> \o rest.bytes, carry |-> rest.carry]

\* a divided by k, from the most significant byte down: quotient and remainder.
RECURSIVE DivFrom(_, _, _, _)
DivFrom(a, k, i, rem) ==
    IF i = 0
    THEN [q |-> <<>>, r |-> rem]
    ELSE LET cur  == rem * ByteBase + a[i]
             rest == DivFrom(a, k, i - 1, cur % k)
         IN  [q |-> Append(rest.q, cur \div k), r |-> rest.r]

\* a > b, comparing from the most significant byte.
RECURSIVE GreaterFrom(_, _, _)
GreaterFrom(a, b, i) ==
    IF i = 0 THEN FALSE
    ELSE IF a[i] # b[i] THEN a[i] > b[i]
    ELSE GreaterFrom(a, b, i - 1)

\* The value fits the model's integers (below 2^31).
FitsInt(a) == a[5] = 0 /\ a[6] = 0 /\ a[7] = 0 /\ a[8] = 0 /\ a[4] < 128
ToInt(a) == a[1] + ByteBase * (a[2] + ByteBase * (a[3] + ByteBase * a[4]))

(***************************************************************************)
(* Time. A point in time is a day number relative to 1970-01-01 and a      *)
(* second of that day.                                                     *)
(***************************************************************************)
Time(d, s) == [d |-> d, s |-> s]

Before(a, b) == a.d < b.d \/ (a.d = b.d /\ a.s < b.s)

\* DateTime::default(): 1970-01-01T00:00:00Z.
DateTimeDefault == Time(0, 0)

IsLeap(y) == (y % 4 = 0 /\ y % 100 # 0) \/ y % 400 = 0

DaysInMonth(y, m) ==
    IF m = 2 THEN (IF IsLeap(y) THEN 29 ELSE 28)
    ELSE IF m \in {4, 6, 9, 11} THEN 30 ELSE 31

\* Days from 1970-01-01 to the civil date y-m-d (proleptic Gregorian).
DaysFromCivil(y, m, d) ==
    LET yy  == IF m <= 2 THEN y - 1 ELSE y
        era == yy \div 400
        yoe == yy - era * 400
        mp  == (m + 9) % 12
        doy == (153 * mp + 2) \div 5 + d - 1
        doe == yoe * 365 + yoe \div 4 - yoe \div 100 + doy
    IN  era * 146097 + doe - 719468

\* extract_timestamp_from_filename: the file name carries its creation time as
\* <stem>_YYYYMMDDHHMMSS.<ext>; `stamp` holds those six fields as the name
\* spells them (<<>> when the name has no such component). Ok(time) when they
\* are a date and a time of day, Err otherwise.
ExtractTimestamp(name) ==
    LET f == name.stamp IN
    IF /\ Len(f) = 6
       /\ f[1] \in 0..9999
       /\ f[2] \in 1..12
       /\ f[3] \in 1..DaysInMonth(f[1], f[2])
       /\ f[4] \in 0..23
       /\ f[5] \in 0..59
       /\ f[6] \in 0..59
    THEN [ok |-> TRUE,
          t  |-> Time(DaysFromCivil(f[1], f[2], f[3]), (f[4] * 60 + f[5]) * 60 + f[6])]
    ELSE [ok |-> FALSE]

Parsable(name) == ExtractTimestamp(name).ok

\* extract_timestamp_from_filename(..).unwrap_or(DateTime::default())
SortKey(e) ==
    LET x == ExtractTimestamp(e.name) IN IF x.ok THEN x.t ELSE DateTimeDefault

(***************************************************************************)
(* StorageProvider                                                         *)
(***************************************************************************)
\* Most objects the backend holds at a time.
MaxObjects == 3
\* The default listing limit in the model; it stands for the 1000 of
\* options.limit.unwrap_or(1000), provider.rs:136, so that a backend can hold
\* more objects than the default limit.
DefaultLimit == 2

\* An Entry: its path, its name (the text and, spelled out, the six fields of the
\* time the text carries), whether it is a file, and the content length that
\* get_content_length resolves for it.
Object(text, stamp, isFile, len) ==
    [path |-> text, name |-> [text |-> text, stamp |-> stamp],
     is_file |-> isFile, content_length |-> len]

\* The objects a backend may hold: backups named after their creation time (one
\* of them from before 1970), two files whose name carries no valid time, and
\* a directory.
A0101 == Object("a_20240101000000.sql", <<2024, 1, 1, 0, 0, 0>>, TRUE, 1)
A0201 == Object("a_20240201000000.sql", <<2024, 2, 1, 0, 0, 0>>, TRUE, 2)
B0301 == Object("b_20240301000000.sql", <<2024, 3, 1, 0, 0, 0>>, TRUE, 4)
Z1969 == Object("z_19690101000000.sql", <<1969, 1, 1, 0, 0, 0>>, TRUE, 8)
C1301 == Object("c_20241301000000.sql", <<2024, 13, 1, 0, 0, 0>>, TRUE, 16)
Notes == Object("notes.txt", <<>>, TRUE, 32)
Dir   == Object("archive/", <<>>, FALSE, 0)

Objects == {A0101, A0201, B0301, Z1969, C1301, Notes, Dir}

Paths == {o.path : o \in Objects}
NoPath == "-"

\* SystemTime::now() at the moment cleanup runs.
Nows == { Time(DaysFromCivil(2025, 1, 1), 0), Time(DaysFromCivil(2025, 1, 1), 1) }

\* retention_days: u64.
WrapDays == U64(0, 12725829, 422538)    \* 213503982334602 = ceil(2^64 / 86400)
RetentionDays ==
    { U64(0, 0, 0), U64(0, 0, 300), U64(0, 0, 306), U64(0, 0, 320), U64(0, 0, 400),
      U64(0, 59, 10144256),                 \* 1000000000
      WrapDays,
      U64(65535, 16777215, 16777215) }      \* u64::MAX

Limits == {None, Some(1), Some(2)}
LatestOnly == {None, Some(FALSE), Some(TRUE)}

\* The orders in which the backend may report the objects it holds.
Orders(S) ==
    {f \in [1..Cardinality(S) -> S] : \A i, j \in 1..Cardinality(S) : f[i] = f[j] => i = j}

RECURSIVE Sum(_)
Sum(S) == IF S = {} THEN 0
          ELSE LET o == CHOOSE x \in S : TRUE IN o.content_length + Sum(S \ {o})

\* operator.list_with("").recursive(true).limit(limit).await: opendal's limit is
\* "the max results that could return per-request" to the service; list_with
\* follows the pages to the end and collects every entry into the Vec.
RECURSIVE Pages(_, _)
Pages(rest, limit) ==
    IF rest = <<>> THEN <<>>
    ELSE LET k == Min(limit, Len(rest))
         IN  SubSeq(rest, 1, k) \o Pages(SubSeq(rest, k + 1, Len(rest)), limit)
OperatorListFirstPage(order, limit) == SubSeq(order, 1, Min(limit, Len(order)))
OperatorList(order, limit) == Pages(order, limit)

IsFile(e) == e.is_file

\* b_timestamp.cmp(&a_timestamp): does a sort strictly before b?
SortsBeforeAscending(a, b) == Before(SortKey(a), SortKey(b))
SortsBefore(a, b) == Before(SortKey(b), SortKey(a))

\* Vec::sort_by is stable: e goes before the first element it sorts strictly
\* before, hence after every element it compares equal to.
RECURSIVE InsertSorted(_, _)
InsertSorted(sorted, e) ==
    IF sorted = <<>> THEN <<e>>
    ELSE IF SortsBefore(e, Head(sorted)) THEN <<e>> \o sorted
    ELSE <<Head(sorted)>> \o InsertSorted(Tail(sorted), e)

RECURSIVE SortFrom(_, _, _)
SortFrom(seq, i, sorted) ==
    IF i > Len(seq) THEN sorted
    ELSE SortFrom(seq, i + 1, InsertSorted(sorted, seq[i]))

SortByTimestamp(seq) == SortFrom(seq, 1, <<>>)

Ok(fields) == [kind |-> "ok"] @@ fields
Err(error) == [kind |-> "err", error |-> error]

\* list_with_options(options), given the order the backend reports and whether
\* the backend call fails.
ListWithOptionsResult(order, opts, listFails) ==
    IF listFails THEN Err("Failed to list backups")
    ELSE LET limit       == UnwrapOr(opts.limit, DefaultLimit)
             latest_only == UnwrapOr(opts.latest_only, FALSE)
             filtered    == SortByTimestamp(SelectSeq(OperatorList(order, limit), IsFile))
         IN  IF latest_only
             THEN IF filtered # <<>> THEN Ok([entries |-> <<filtered[1]>>])
                                     ELSE Err("No entry found")
             ELSE Ok([entries |-> filtered])

\* list()
ListResult(order, listFails) ==
    ListWithOptionsResult(order, [latest_only |-> None, limit |-> None], listFails)

\* timestamp < cutoff_datetime
IsExpiredAfterCutoff(t, cutoff) == Before(cutoff, t)
IsExpired(t, cutoff) == Before(t, cutoff)

\* if !dry_run { self.delete(&backup.path).await?; .. }
DeletesAlways(dry_run) == TRUE
Deletes(dry_run) == ~dry_run

\* The Err(_) arm of cleanup's match: warn!(..) and go on with the next entry.
OnTimestampErrStop == "stop"
OnTimestampErr == "continue"

\* SystemTime::now().checked_sub(Duration::from_secs(retention_days * 86400)),
\* then cutoff.into(): DateTime<Utc>.
\*   - the product is a u64 product: a build with overflow checks panics when it
\*     does not fit, a build without them keeps its low 64 bits;
\*   - checked_sub is None when now - duration is below the smallest SystemTime
\*     (signed 64-bit seconds);
\*   - the conversion to DateTime<Utc> panics below chrono's smallest date
\*     (year -262143).
Cutoff(now, retention_days, overflow) ==
    LET prod  == MulFrom(retention_days, SecondsPerDay, 1, 0)
        secs  == now.d * SecondsPerDay + now.s
        \* now + 2^63 seconds, now being below 2^31 seconds
        least == [U64(0, secs \div 16777216, secs % 16777216) EXCEPT ![8] = 128]
        qr    == DivFrom(prod.bytes, SecondsPerDay, U64Bytes, 0)
    IN  IF prod.carry # 0 /\ overflow = "checked" THEN [kind |-> "panic"]
        ELSE IF GreaterFrom(prod.bytes, least, U64Bytes)
        THEN [kind |-> "err"]
        ELSE IF ~FitsInt(qr.q) \/ ToInt(qr.q) > now.d - DaysFromCivil(-262143, 1, 1)
        THEN [kind |-> "panic"]
        ELSE [kind |-> "ok",
              t |-> Time(now.d - ToInt(qr.q) - (IF now.s < qr.r THEN 1 ELSE 0),
                         (now.s - qr.r) % SecondsPerDay)]

\* retention_days * 86400 does not fit 64 bits.
Overflows(retention_days) == MulFrom(retention_days, SecondsPerDay, 1, 0).carry # 0

\* How the build treats an overflowing u64 product.
OverflowModes(retention_days) ==
    IF Overflows(retention_days) THEN {"wrapping", "checked"} ELSE {"wrapping"}

\* self.delete(&backup.path).await?: the Err of delete leaves cleanup at once
\* as cleanup's own Err.
OnDeleteErrSkip == "continue"
OnDeleteErr == "return"

\* The cutoff of every cleanup call of the model, computed once and looked up.
CleanupInputs ==
    {<<now, rd, overflow>> \in Nows \X RetentionDays \X {"wrapping", "checked"} :
        overflow \in OverflowModes(rd)}
CutoffTable == {<<x, Cutoff(x[1], x[2], x[3])>> : x \in CleanupInputs}
CutoffOf(x) == (CHOOSE p \in CutoffTable : p[1] = x)[2]

\* self.delete(&backup.path): the object is gone from the backend.
DeleteObject(st, path) == {o \in st : o.path # path}

\* The for loop of cleanup over backups[i..], with the backend's objects st and
\* the counters so far; failPath is the path whose delete the backend refuses.
RECURSIVE CleanupLoop(_, _, _, _, _, _, _, _)
CleanupLoop(backups, i, cutoff, dry_run, failPath, st, deleted_count, deleted_size) ==
    IF i > Len(backups)
    THEN [storage |-> st,
          ret |-> Ok([deleted_count |-> deleted_count, deleted_size |-> deleted_size])]
    ELSE LET backup == backups[i]
             x      == ExtractTimestamp(backup.name)
         IN  IF x.ok
             THEN IF IsExpired(x.t, cutoff)
                  THEN IF ~Deletes(dry_run)
                       THEN CleanupLoop(backups, i + 1, cutoff, dry_run, failPath, st,
                                        deleted_count + 1,
                                        deleted_size + backup.content_length)
                       ELSE IF backup.path = failPath
                       THEN IF OnDeleteErr = "return"
                            THEN [storage |-> st,
                                  ret |-> Err("Failed to delete backup")
                                             @@ [path |-> backup.path]]
                            ELSE CleanupLoop(backups, i + 1, cutoff, dry_run, failPath, st,
                                             deleted_count + 1,
                                             deleted_size + backup.content_length)
                       ELSE CleanupLoop(backups, i + 1, cutoff, dry_run, failPath,
                                        DeleteObject(st, backup.path),
                                        deleted_count + 1,
                                        deleted_size + backup.content_length)
                  ELSE CleanupLoop(backups, i + 1, cutoff, dry_run, failPath, st,
                                   deleted_count, deleted_size)
             ELSE IF OnTimestampErr = "continue"
                  THEN CleanupLoop(backups, i + 1, cutoff, dry_run, failPath, st,
                                   deleted_count, deleted_size)
                  ELSE [storage |-> st,
                        ret |-> Ok([deleted_count |-> deleted_count,
                                    deleted_size |-> deleted_size])]

\* cleanup(retention_days, dry_run)
CleanupResult(st, order, listFails, now, retention_days, overflow, dry_run, failPath) ==
    LET backups == ListResult(order, listFails)
        cutoff  == CutoffOf(<<now, retention_days, overflow>>)
    IN  IF backups.kind = "err" THEN [storage |-> st, ret |-> backups]
        ELSE IF cutoff.kind = "panic" THEN [storage |-> st, ret |-> [kind |-> "panic"]]
        ELSE IF cutoff.kind = "err"
        THEN [storage |-> st, ret |-> Err("Failed to calculate cutoff date")]
        ELSE CleanupLoop(backups.entries, 1, cutoff.t, dry_run, failPath, st, 0, 0)

InitStorage ==
    /\ storage = {}
    /\ call = [op |-> "none"]
    /\ ret = [kind |-> "ok"]

\* No StorageProvider call is under way or waiting to be looked at.
Quiet == call.op = "none"

\* create_writer(filename), written and closed by the caller: a new object.
CreateWriter ==
    /\ Quiet
    /\ Cardinality(storage) < MaxObjects
    /\ \E o \in Objects \ storage :
        /\ storage' = storage \cup {o}
        /\ call' = [op |-> "create_writer", path |-> o.path]
        /\ ret' = [kind |-> "ok"]
    /\ UNCHANGED connVars

\* delete(path)
Delete ==
    /\ Quiet
    /\ \E o \in storage, fails \in BOOLEAN :
        /\ storage' = IF fails THEN storage ELSE DeleteObject(storage, o.path)
        /\ call' = [op |-> "delete", path |-> o.path]
        /\ ret' = IF fails THEN Err("Failed to delete backup") @@ [path |-> o.path]
                           ELSE [kind |-> "ok"]
    /\ UNCHANGED connVars

\* list_with_options(options); list() is the call with both options None.
ListWithOptions ==
    /\ Quiet
    /\ \E order \in Orders(storage), lo \in LatestOnly, lim \in Limits, listFails \in BOOLEAN :
        /\ call' = [op |-> "list_with_options",
                    options |-> [latest_only |-> lo, limit |-> lim],
                    before |-> storage, order |-> order]
        /\ ret' = ListWithOptionsResult(order, [latest_only |-> lo, limit |-> lim], listFails)
    /\ UNCHANGED storage
    /\ UNCHANGED connVars

\* cleanup(retention_days, dry_run)
Cleanup ==
    /\ Quiet
    /\ \E x \in CleanupInputs, dry_run \in BOOLEAN, order \in Orders(storage),
          listFails \in BOOLEAN, failPath \in {o.path : o \in storage} \cup {NoPath} :
        LET now            == x[1]
            retention_days == x[2]
            overflow       == x[3]
            r == CleanupResult(storage, order, listFails, now, retention_days,
                               overflow, dry_run, failPath)
        IN  /\ storage' = r.storage
            /\ ret' = r.ret
            /\ call' = [op |-> "cleanup", retention_days |-> retention_days,
                        overflow |-> overflow, dry_run |-> dry_run, now |-> now,
                        before |-> storage, order |-> order, cutoff |-> CutoffOf(x),
                        refused |-> failPath]
    /\ UNCHANGED connVars

\* The caller has looked at what the call returned.
Done ==
    /\ ~Quiet
    /\ call' = [op |-> "none"]
    /\ ret' = [kind |-> "ok"]
    /\ UNCHANGED storage
    /\ UNCHANGED connVars

NextStorage ==
    \/ CreateWriter
    \/ Delete
    \/ ListWithOptions
    \/ Cleanup
    \/ Done

Init == InitConn /\ InitStorage

SpecConn == Init /\ [][NextConn]_vars

SpecStorage == Init /\ [][NextStorage]_vars

(***************************************************************************)
(* Claims about StorageProvider, checked under SpecStorage.                *)
(***************************************************************************)
Ts(o) == ExtractTimestamp(o.name).t

\* The file entries the storage held when the call was made.
CallFiles == {o \in call.before : o.is_file}

IsLatestOnlyCall ==
    /\ call.op = "list_with_options"
    /\ UnwrapOr(call.options.latest_only, FALSE)

\* What cleanup took for expired: the parsable file entries before the cutoff
\* it computed.
ExpiredByCode ==
    {o \in CallFiles : Parsable(o.name) /\ Before(Ts(o), call.cutoff.t)}

\* The parsable file entries strictly before now minus retention_days days.
\* A retention of 2^31 days or more reaches back before year 0000, the
\* earliest time a file name can carry.
ExpiredExactly ==
    {o \in CallFiles :
        /\ Parsable(o.name)
        /\ FitsInt(call.retention_days)
        /\ Before(Ts(o), Time(call.now.d - ToInt(call.retention_days), call.now.s))}

\* C6 as claimed: list_with_options(latest_only=true) returns exactly one
\* entry, a file entry whose embedded timestamp is the maximum among the file
\* entries in storage, for every limit; it fails with "No entry found" when the
\* storage holds no file entry.
C6_LatestIsMaximum ==
    (IsLatestOnlyCall /\ ret # Err("Failed to list backups")) =>
        IF CallFiles = {}
        THEN ret = Err("No entry found")
        ELSE /\ ret.kind = "ok"
             /\ Len(ret.entries) = 1
             /\ ret.entries[1] \in CallFiles
             /\ Parsable(ret.entries[1].name)
             /\ \A f \in CallFiles :
                   Parsable(f.name) => ~Before(Ts(ret.entries[1]), Ts(f))

\* C7 as claimed: the entry list_with_options(latest_only=true) returns has a
\* parsable embedded timestamp.
C7_LatestIsParsable ==
    (IsLatestOnlyCall /\ ret.kind = "ok") => Parsable(ret.entries[1].name)

\* C8: cleanup never deletes an entry whose embedded timestamp is unparsable,
\* counts nothing for it, returns no error because of it (the only errors are a
\* failed listing, a failed cutoff computation and a failed delete of an
\* expired entry) and goes on with the entries after it: a successful cleanup
\* has counted, and unless dry_run deleted, every expired entry.
C8_CleanupSkipsUnparsable ==
    call.op = "cleanup" =>
        /\ \A o \in call.before : ~Parsable(o.name) => o \in storage
        /\ ret.kind = "ok" =>
              /\ ret.deleted_count = Cardinality(ExpiredByCode)
              /\ ret.deleted_size = Sum(ExpiredByCode)
              /\ ~call.dry_run => storage = call.before \ ExpiredByCode
        /\ ret.kind = "err" =>
              \/ ret = Err("Failed to list backups")
              \/ ret = Err("Failed to calculate cutoff date")
              \/ /\ ret.error = "Failed to delete backup"
                 /\ ~call.dry_run
                 /\ ret.path \in {o.path : o \in ExpiredByCode}

\* An unparsable entry is listed before an expired one (the file from 1969
\* sorts after it), and the expired one was still deleted.
C8_Witness ==
    /\ call.op = "cleanup"
    /\ ~call.dry_run
    /\ ret.kind = "ok"
    /\ call.before = {Notes, Z1969, B0301}
    /\ storage = {Notes}
    /\ ret.deleted_count = 2

\* C9 as claimed: a successful cleanup(retention_days, dry_run=false) deletes
\* exactly the file entries whose parsable timestamp is strictly before
\* now - retention_days days, and returns their number and their total size.
C9_CleanupDeletesExpired ==
    (call.op = "cleanup" /\ ~call.dry_run /\ ret.kind = "ok") =>
        /\ storage = call.before \ ExpiredExactly
        /\ ret.deleted_count = Cardinality(ExpiredExactly)
        /\ ret.deleted_size = Sum(ExpiredExactly)

\* C9 holds of every call whose retention_days * 86400 fits 64 bits.
C9_HoldsWithoutOverflow ==
    (call.op = "cleanup" /\ ~call.dry_run /\ ret.kind = "ok"
        /\ ~Overflows(call.retention_days)) =>
        /\ storage = call.before \ ExpiredExactly
        /\ ret.deleted_count = Cardinality(ExpiredExactly)
        /\ ret.deleted_size = Sum(ExpiredExactly)

\* The scenario of C10: exactly the three objects, cleanup run on 2025-01-01.
C10_Scenario ==
    /\ call.op = "cleanup"
    /\ call.before = {A0101, A0201, B0301}
    /\ call.now.d = DaysFromCivil(2025, 1, 1)
    /\ ret.kind = "ok"

\* C10 as claimed: cleanup(400) deletes nothing, and cleanup(300) deletes
\* exactly the two a_ objects and leaves b_20240301000000.sql.
C10_AsClaimed ==
    C10_Scenario =>
        /\ call.retention_days = U64(0, 0, 400) =>
              (storage = call.before /\ ret.deleted_count = 0)
        /\ (call.retention_days = U64(0, 0, 300) /\ ~call.dry_run) =>
              storage = {B0301}

\* C10 as amended: cleanup(400) deletes nothing; cleanup(300) deletes all three
\* objects, because b_20240301000000.sql is 306 days old on 2025-01-01 and the
\* cutoff of 300 days is 2024-03-07; a retention of 320 days is one that
\* deletes exactly the two a_ objects.
C10_ScenarioAmended ==
    C10_Scenario =>
        /\ call.retention_days = U64(0, 0, 400) =>
              (storage = call.before /\ ret.deleted_count = 0)
        /\ (call.retention_days = U64(0, 0, 300) /\ ~call.dry_run) =>
              (storage = {} /\ ret.deleted_count = 3 /\ ret.deleted_size = 7)
        /\ (call.retention_days = U64(0, 0, 320) /\ ~call.dry_run) =>
              (storage = {B0301} /\ ret.deleted_count = 2)

C10_Witness ==
    /\ C10_Scenario
    /\ call.retention_days = U64(0, 0, 300)
    /\ ~call.dry_run
    /\ call.cutoff.t = Time(DaysFromCivil(2024, 3, 7), 0)
    /\ storage = {}

\* What cleanup returns, with the other value of dry_run, for the arguments,
\* the time and the listing of the recorded call when no delete is refused.
CleanupTwin(dry_run) ==
    CleanupResult(call.before, call.order, FALSE, call.now, call.retention_days,
                  call.overflow, dry_run, NoPath)

\* C11: cleanup(retention_days, dry_run=true) deletes nothing, and the
\* (count, total_bytes) it returns is the one cleanup(retention_days,
\* dry_run=false) returns on the same objects at the same time.
C11_DryRunSameCounts ==
    (call.op = "cleanup" /\ call.dry_run) =>
        /\ storage = call.before
        /\ ret.kind = "ok" =>
              /\ CleanupTwin(FALSE).ret = ret
              /\ CleanupTwin(FALSE).storage = call.before \ ExpiredByCode
              /\ ret.deleted_count = Cardinality(ExpiredByCode)
              /\ ret.deleted_size = Sum(ExpiredByCode)

C11_Witness ==
    /\ call.op = "cleanup"
    /\ call.dry_run
    /\ ret.kind = "ok"
    /\ ret.deleted_count = 2
    /\ ret.deleted_size = 3
    /\ storage = {A0101, A0201, Notes}
    /\ CleanupTwin(FALSE).storage = {Notes}

IsFullListing ==
    /\ call.op = "list_with_options"
    /\ ~UnwrapOr(call.options.latest_only, FALSE)
    /\ ret.kind = "ok"

\* C13 as claimed: in the result of list / list_with_options every entry with
\* a parsable timestamp comes before every entry with an unparsable one,
\* whatever the parsed timestamp is, and the parsable entries are in
\* non-increasing timestamp order.
C13_UnparsableLast ==
    IsFullListing =>
        \A i, j \in 1..Len(ret.entries) :
            i < j =>
                /\ Parsable(ret.entries[j].name) => Parsable(ret.entries[i].name)
                /\ (Parsable(ret.entries[i].name) /\ Parsable(ret.entries[j].name)) =>
                      ~Before(Ts(ret.entries[i]), Ts(ret.entries[j]))

\* C13 holds of every listing whose parsable timestamps are not before
\* 1970-01-01T00:00:00Z, the value the sort substitutes.
C13_HoldsFromEpoch ==
    (IsFullListing
        /\ \A o \in CallFiles : Parsable(o.name) => ~Before(Ts(o), DateTimeDefault)) =>
        \A i, j \in 1..Len(ret.entries) :
            i < j =>
                /\ (Parsable(ret.entries[j].name) /\ Ts(ret.entries[j]) # DateTimeDefault)
                      => Parsable(ret.entries[i].name)
                /\ (Parsable(ret.entries[i].name) /\ Parsable(ret.entries[j].name)) =>
                      ~Before(Ts(ret.entries[i]), Ts(ret.entries[j]))

\* A cleanup call that listed, computed its cutoff and, not being a dry run,
\* came to an expired entry whose delete the backend refused.
DeleteRefused ==
    /\ call.op = "cleanup"
    /\ ~call.dry_run
    /\ ret # Err("Failed to list backups")
    /\ call.cutoff.kind = "ok"
    /\ \E f \in ExpiredByCode : f.path = call.refused

\* The entries cleanup reached before the entry at the given path: list()
\* hands them newest timestamp first, and of those only the expired ones are
\* given to delete.
ExpiredNewerThan(path) ==
    {o \in ExpiredByCode :
        \E f \in ExpiredByCode : f.path = path /\ Before(Ts(f), Ts(o))}

\* C21: cleanup(retention_days, dry_run=false) goes through the entries newest
\* timestamp first and stops at the first delete that fails. What it returns
\* is that failure with the path, and no (count, bytes); the entry whose
\* delete failed is still there (no second attempt removed it), every expired
\* entry ordered before it is deleted, and every entry ordered after it, like
\* every entry that is not expired, is untouched.
C21_StopsAtFirstFailedDelete ==
    DeleteRefused =>
        /\ ret = Err("Failed to delete backup") @@ [path |-> call.refused]
        /\ \E f \in storage : f.path = call.refused
        /\ storage = call.before \ ExpiredNewerThan(call.refused)
        /\ \A o \in ExpiredExactly :
              (\E f \in ExpiredByCode : f.path = call.refused /\ Before(Ts(f), Ts(o)))
                  => o \notin storage
        /\ \A o \in CallFiles :
              (/\ Parsable(o.name)
               /\ \E f \in ExpiredByCode : f.path = call.refused /\ Before(Ts(o), Ts(f)))
                  => o \in storage

\* The delete of the middle one of three expired backups fails: the newest is
\* gone, the failing one and the oldest are still there.
C21_Witness ==
    /\ DeleteRefused
    /\ call.before = {A0101, A0201, B0301}
    /\ ExpiredByCode = call.before
    /\ ExpiredExactly = call.before
    /\ call.refused = A0201.path
    /\ ret.kind = "err"
    /\ storage = {A0101, A0201}

\* What cleanup(retention_days, dry_run=false) deletes on the objects, at the
\* time and in the build of the recorded call when no delete is refused.
DeletedWith(retention_days) ==
    call.before \ CleanupResult(call.before, call.order, FALSE, call.now, retention_days,
                                IF Overflows(retention_days) THEN call.overflow
                                                             ELSE "wrapping",
                                FALSE, NoPath).storage

\* C22 as claimed: for every u64 retention_days, cleanup either uses the exact
\* cutoff, now minus retention_days days, or fails with "Failed to calculate
\* cutoff date" having deleted nothing; and a larger retention_days never
\* deletes an entry that a smaller one keeps.
C22_ExactCutoffOrError ==
    (call.op = "cleanup" /\ ret # Err("Failed to list backups")) =>
        /\ \/ /\ ret = Err("Failed to calculate cutoff date")
              /\ storage = call.before
           \/ /\ call.cutoff.kind = "ok"
              /\ FitsInt(call.retention_days)
              /\ call.cutoff.t = Time(call.now.d - ToInt(call.retention_days), call.now.s)
        /\ \A smaller \in RetentionDays :
              GreaterFrom(call.retention_days, smaller, U64Bytes) =>
                  DeletedWith(call.retention_days) \subseteq DeletedWith(smaller)

\* C22 holds of every call whose product retention_days * 86400 fits 64 bits
\* and whose cutoff is a date chrono can hold.
C22_HoldsWhenProductFits ==
    (/\ call.op = "cleanup"
     /\ ~Overflows(call.retention_days)
     /\ call.cutoff.kind # "panic") => C22_ExactCutoffOrError

====
